---- MODULE Spec2Model ----
(***************************************************************************)
(* A model of the PDF exporter of src/export/pdf.rs: the Remapper, the     *)
(* Refs allocator, and the PdfExporter (new, write_structure, write_pages, *)
(* write_page, write_fonts, write_images).                                 *)
(*                                                                         *)
(* Lengths are whole points (to_pt and the f32 cast are exact on the small *)
(* integers used here); reference ids are the i32 values behind Ref.       *)
(***************************************************************************)
EXTENDS Integers, Sequences, FiniteSets, TLC

(***************************************************************************)
(* Bounds of the model.                                                    *)
(***************************************************************************)
MaxPages == 2
MaxElems == 3
MaxCalls == 4
MaxCount == 3

(***************************************************************************)
(* Program constants.                                                      *)
(***************************************************************************)
OBJECTS_PER_FONT == 5
FaceIdMAX == 99
LengthZERO == 0

(***************************************************************************)
(* The input domain: faces, image resources and the environment.           *)
(***************************************************************************)
Keys == {1, 2, 3}
Heights == {100, 200}

\* Faces 1 and 2 are loaded in env.fonts.  FaceIdMAX stands for FaceId::MAX,
\* the id write_page keeps for "no face yet": no loaded face has it, and
\* write_fonts requires every face of the layouts to be loaded.
\* Images 1, 2 and 3 are loaded in env.resources; 2 and 3 carry alpha:
\* env.resources.get_loaded(res).color().has_alpha()
HasAlpha(res) == res \in {2, 3}

TextElement(face, font_size, x, y) ==
    [pos |-> [x |-> x, y |-> y],
     element |-> [kind |-> "Text", face |-> face, font_size |-> font_size]]

ImageElement(res, w, h, x, y) ==
    [pos |-> [x |-> x, y |-> y],
     element |-> [kind |-> "Image", res |-> res,
                  size |-> [width |-> w, height |-> h]]]

Elements ==
    { TextElement(1, 12, 10, 10),
      TextElement(1, 10, 10, 30),
      TextElement(2, 12, 20, 50),
      TextElement(2, LengthZERO, 10, 10),
      ImageElement(1, 50, 40, 0, 0),
      ImageElement(2, 20, 20, 30, 60),
      ImageElement(3, 10, 30, 5, 5) }

(***************************************************************************)
(* Sequence helpers (iterators of the source are finite sequences here).   *)
(***************************************************************************)
Min(a, b) == IF a < b THEN a ELSE b

\* the half-open integer range a .. b of Rust, as a sequence
Range(a, b) == [i \in 1 .. (IF b > a THEN b - a ELSE 0) |-> a + i - 1]

\* Iterator::zip stops at the shorter of the two
Zip(s, t) == [i \in 1 .. Min(Len(s), Len(t)) |-> <<s[i], t[i]>>]

Elems(s) == {s[i] : i \in DOMAIN s}

RECURSIVE Concat(_)
Concat(ss) == IF Len(ss) = 0 THEN <<>> ELSE Head(ss) \o Concat(Tail(ss))

(***************************************************************************)
(* Remapper<Index>                                                         *)
(***************************************************************************)
RemapperNew == [to_pdf |-> <<>>, to_layout |-> <<>>]

RemapperLen(m) == Len(m.to_layout)

RemapperInsertAlways(m, index) ==
    [to_pdf |-> [k \in DOMAIN m.to_pdf \cup {index} |->
                    IF k = index THEN Len(m.to_layout) ELSE m.to_pdf[k]],
     to_layout |-> Append(m.to_layout, index)]

RemapperInsert(m, index) ==
    IF index \in DOMAIN m.to_pdf
    THEN m
    ELSE [to_pdf |-> [k \in DOMAIN m.to_pdf \cup {index} |->
                         IF k = index THEN Len(m.to_layout) ELSE m.to_pdf[k]],
          to_layout |-> Append(m.to_layout, index)]

RemapperMap(m, index) == m.to_pdf[index]

RemapperPdfIndices(m) == Range(0, Cardinality(DOMAIN m.to_pdf))

RemapperLayoutIndices(m) == m.to_layout

(***************************************************************************)
(* Refs                                                                    *)
(***************************************************************************)
RefsNew(layouts_, fonts_, images_, alpha_masks_) ==
    LET catalog_ == 1
        page_tree_ == catalog_ + 1
        pages_start_ == page_tree_ + 1
        contents_start_ == pages_start_ + layouts_
        fonts_start_ == contents_start_ + layouts_
        images_start_ == fonts_start_ + OBJECTS_PER_FONT * fonts_
        alpha_masks_start_ == images_start_ + images_
        end_ == alpha_masks_start_ + alpha_masks_
    IN  [catalog |-> catalog_,
         page_tree |-> page_tree_,
         pages_start |-> pages_start_,
         contents_start |-> contents_start_,
         fonts_start |-> fonts_start_,
         images_start |-> images_start_,
         alpha_masks_start |-> alpha_masks_start_,
         end |-> end_]

RefsPages(r) == Range(r.pages_start, r.contents_start)

RefsContentsFromPages(r) == Range(r.pages_start, r.images_start)

RefsContents(r) == Range(r.contents_start, r.images_start)

\* (fonts_start .. images_start).step_by(OBJECTS_PER_FONT)
RefsFonts(r) ==
    LET n == r.images_start - r.fonts_start
        groups == IF n > 0 THEN (n + OBJECTS_PER_FONT - 1) \div OBJECTS_PER_FONT
                  ELSE 0
    IN  [g \in 1 .. groups |->
            LET id == r.fonts_start + OBJECTS_PER_FONT * (g - 1)
            IN  [type0_font |-> id,
                 cid_font |-> id + 1,
                 font_descriptor |-> id + 2,
                 cmap |-> id + 3,
                 data |-> id + 4]]

RefsImages(r) == Range(r.images_start, r.end)

RefsAlphaMaskFromImages(r, i) == r.images_start + i

RefsAlphaMask(r, i) == r.alpha_masks_start + i

(***************************************************************************)
(* State.                                                                  *)
(*   layouts, pc, refs, fonts, images, writer : one export() call          *)
(*   rm, calls                                : a Remapper under insert    *)
(*   args, r, rpc                             : Refs::new on given counts  *)
(***************************************************************************)
VARIABLES layouts, pc, refs, fonts, images, writer, rm, calls, args, r, rpc

vars == <<layouts, pc, refs, fonts, images, writer, rm, calls, args, r, rpc>>

exportVars == <<layouts, pc, refs, fonts, images, writer>>
remapperVars == <<rm, calls>>
refsVars == <<args, r, rpc>>

(***************************************************************************)
(* PdfExporter::new                                                        *)
(***************************************************************************)
ScanElement(st, element) ==
    IF element.kind = "Text"
    THEN [st EXCEPT !.fonts = RemapperInsert(@, element.face)]
    ELSE [st EXCEPT !.alpha_masks = IF HasAlpha(element.res) THEN @ + 1 ELSE @,
                    !.images = RemapperInsert(@, element.res)]

RECURSIVE Scan(_, _, _)
Scan(es, i, st) ==
    IF i > Len(es) THEN st ELSE Scan(es, i + 1, ScanElement(st, es[i].element))

PdfExporterNew(ls) ==
    LET st == Scan(Concat([p \in DOMAIN ls |-> ls[p].elements]), 1,
                   [fonts |-> RemapperNew, images |-> RemapperNew,
                    alpha_masks |-> 0])
    IN  [refs |-> RefsNew(Len(ls), RemapperLen(st.fonts),
                          RemapperLen(st.images), st.alpha_masks),
         fonts |-> st.fonts,
         images |-> st.images]

(***************************************************************************)
(* PdfExporter::write_structure                                            *)
(***************************************************************************)
FontName(i) == <<"F", i>>
ImageName(i) == <<"Im", i>>

FontEntriesShifted(rf, fs) ==
    LET z == Zip(RefsFonts(rf), RemapperPdfIndices(fs))
    IN  [i \in DOMAIN z |-> <<FontName(z[i][2] + 1), z[i][1].type0_font>>]

FontEntries(rf, fs) ==
    LET z == Zip(RefsFonts(rf), RemapperPdfIndices(fs))
    IN  [i \in DOMAIN z |-> <<FontName(z[i][2]), z[i][1].type0_font>>]

ImageEntries(rf, ims) ==
    LET z == Zip(RefsImages(rf), RemapperPdfIndices(ims))
    IN  [i \in DOMAIN z |-> <<ImageName(z[i][2]), z[i][1]>>]

PageObjects(rf, ls) ==
    LET z == Zip(Zip(RefsPages(rf), RefsContents(rf)), ls)
    IN  [i \in DOMAIN z |->
            [id |-> z[i][1][1],
             type |-> "Page",
             parent |-> rf.page_tree,
             media_box |-> <<0, 0, z[i][2].size.width, z[i][2].size.height>>,
             contents |-> z[i][1][2]]]

StructureObjects(rf, fs, ims, ls) ==
    << [id |-> rf.catalog, type |-> "Catalog", pages |-> rf.page_tree],
       [id |-> rf.page_tree, type |-> "Pages",
        kids |-> RefsPages(rf),
        fonts |-> FontEntries(rf, fs),
        x_objects |-> ImageEntries(rf, ims)] >>
    \o PageObjects(rf, ls)

(***************************************************************************)
(* PdfExporter::write_page                                                 *)
(* Every instruction carries, in elem, the index of the element of the     *)
(* page it was emitted for (0 for the text object's brackets).             *)
(***************************************************************************)
NeedSwitchFaceOnly(shaped, face, size) == shaped.face # face

NeedSwitch(shaped, face, size) ==
    shaped.face # face \/ shaped.font_size # size

TextYNoSize(height, y, size) == height - y

TextY(height, y, size) == height - y - size

RECURSIVE TextPass(_, _, _, _, _)
TextPass(fs, page, i, face, size) ==
    IF i > Len(page.elements) THEN <<>>
    ELSE LET pos == page.elements[i].pos
             shaped == page.elements[i].element
         IN  IF shaped.kind = "Text"
             THEN LET sw == NeedSwitch(shaped, face, size)
                      face2 == IF sw THEN shaped.face ELSE face
                      size2 == IF sw THEN shaped.font_size ELSE size
                  IN  (IF sw
                       THEN << [op |-> "Tf", elem |-> i,
                                name |-> FontName(RemapperMap(fs, shaped.face)),
                                size |-> size2] >>
                       ELSE <<>>)
                      \o << [op |-> "Tm", elem |-> i, x |-> pos.x,
                             y |-> TextY(page.size.height, pos.y, size2)],
                            [op |-> "Tj", elem |-> i] >>
                      \o TextPass(fs, page, i + 1, face2, size2)
             ELSE TextPass(fs, page, i + 1, face, size)

RECURSIVE ImagePass(_, _, _)
ImagePass(ims, page, i) ==
    IF i > Len(page.elements) THEN <<>>
    ELSE LET pos == page.elements[i].pos
             image == page.elements[i].element
         IN  IF image.kind = "Image"
             THEN << [op |-> "q", elem |-> i],
                     [op |-> "cm", elem |-> i,
                      w |-> image.size.width, h |-> image.size.height,
                      x |-> pos.x,
                      y |-> page.size.height - pos.y - image.size.height],
                     [op |-> "Do", elem |-> i,
                      name |-> ImageName(RemapperMap(ims, image.res))],
                     [op |-> "Q", elem |-> i] >>
                  \o ImagePass(ims, page, i + 1)
             ELSE ImagePass(ims, page, i + 1)

ActiveFontLoaded == [face |-> 1, size |-> 12]

ActiveFont == [face |-> FaceIdMAX, size |-> LengthZERO]

WritePage(fs, ims, id, page) ==
    [id |-> id, type |-> "Stream",
     content |-> << [op |-> "BT", elem |-> 0] >>
                 \o TextPass(fs, page, 1, ActiveFont.face, ActiveFont.size)
                 \o << [op |-> "ET", elem |-> 0] >>
                 \o ImagePass(ims, page, 1)]

(***************************************************************************)
(* PdfExporter::write_pages                                                *)
(* layout is the position of the page in the zipped iteration.             *)
(***************************************************************************)
ContentObjects(rf, fs, ims, ls) ==
    LET z == Zip(RefsContents(rf), ls)
    IN  [i \in DOMAIN z |->
            [layout |-> i - 1] @@ WritePage(fs, ims, z[i][1], z[i][2])]

(***************************************************************************)
(* PdfExporter::write_fonts                                                *)
(* Only the object graph of a font is modelled; names, flags and metrics   *)
(* come from the face and are not part of the model.                       *)
(***************************************************************************)
FontObjects(rf, fs) ==
    LET z == Zip(RefsFonts(rf), RemapperLayoutIndices(fs))
    IN  Concat([i \in DOMAIN z |->
            LET g == z[i][1]
                face_id == z[i][2]
            IN  << [id |-> g.type0_font, type |-> "Type0Font", face |-> face_id,
                    descendant_font |-> g.cid_font, to_unicode |-> g.cmap],
                   [id |-> g.cid_font, type |-> "CidFont", face |-> face_id,
                    font_descriptor |-> g.font_descriptor],
                   [id |-> g.font_descriptor, type |-> "FontDescriptor",
                    face |-> face_id, font_file2 |-> g.data],
                   [id |-> g.cmap, type |-> "Cmap", face |-> face_id],
                   [id |-> g.data, type |-> "FontFile", face |-> face_id] >>])

(***************************************************************************)
(* PdfExporter::write_images                                               *)
(***************************************************************************)
RECURSIVE ImagesLoop(_, _, _, _)
ImagesLoop(rf, z, i, mask) ==
    IF i > Len(z) THEN <<>>
    ELSE LET id == z[i][1]
             resource == z[i][2]
         IN  IF HasAlpha(resource)
             THEN LET mask_id == RefsAlphaMask(rf, mask)
                  IN  << [id |-> id, type |-> "Image", res |-> resource,
                          color_space |-> "DeviceRGB", s_mask |-> {mask_id}],
                         [id |-> mask_id, type |-> "Image", res |-> resource,
                          color_space |-> "DeviceGray", s_mask |-> {}] >>
                      \o ImagesLoop(rf, z, i + 1, mask + 1)
             ELSE << [id |-> id, type |-> "Image", res |-> resource,
                      color_space |-> "DeviceRGB", s_mask |-> {}] >>
                  \o ImagesLoop(rf, z, i + 1, mask)

ImageObjects(rf, ims) ==
    ImagesLoop(rf, Zip(RefsImages(rf), RemapperLayoutIndices(ims)), 1, 0)

(***************************************************************************)
(* Inputs of export(): up to MaxPages pages holding up to MaxElems         *)
(* elements in total.                                                      *)
(***************************************************************************)
\* the elements es[i] with cut[i] = p, in order
RECURSIVE PageElements(_, _, _, _)
PageElements(es, cut, p, i) ==
    IF i > Len(es) THEN <<>>
    ELSE (IF cut[i] = p THEN <<es[i]>> ELSE <<>>)
         \o PageElements(es, cut, p, i + 1)

\* nondecreasing assignments of k elements to pages 1 .. n
Cuts(n, k) ==
    { cut \in [1 .. k -> 1 .. n] :
        \A i \in 1 .. k - 1 : cut[i] <= cut[i + 1] }

\* the document of n pages of height h holding the elements es, split by cut
Document(n, es, cut, h) ==
    [p \in 1 .. n |->
        [size |-> [width |-> 100, height |-> h],
         elements |-> PageElements(es, cut, p, 1)]]

(***************************************************************************)
(* The export() call: PdfExporter::new(layouts, env).write()               *)
(***************************************************************************)
NoRefs == RefsNew(0, 0, 0, 0)
NoWriter == [objects |-> <<>>, root |-> 0]

InitExport ==
    /\ \E n \in 0 .. MaxPages, k \in 0 .. MaxElems, h \in Heights :
          \E es \in [1 .. k -> Elements], cut \in Cuts(n, k) :
              layouts = Document(n, es, cut, h)
    /\ pc = "new"
    /\ refs = NoRefs
    /\ fonts = RemapperNew
    /\ images = RemapperNew
    /\ writer = NoWriter

New ==
    /\ pc = "new"
    /\ LET e == PdfExporterNew(layouts)
       IN  /\ refs' = e.refs
           /\ fonts' = e.fonts
           /\ images' = e.images
    /\ pc' = "write_structure"
    /\ UNCHANGED <<layouts, writer, remapperVars, refsVars>>

WriteStructure ==
    /\ pc = "write_structure"
    /\ writer' = [writer EXCEPT !.objects =
                     @ \o StructureObjects(refs, fonts, images, layouts)]
    /\ pc' = "write_pages"
    /\ UNCHANGED <<layouts, refs, fonts, images, remapperVars, refsVars>>

WritePages ==
    /\ pc = "write_pages"
    /\ writer' = [writer EXCEPT !.objects =
                     @ \o ContentObjects(refs, fonts, images, layouts)]
    /\ pc' = "write_fonts"
    /\ UNCHANGED <<layouts, refs, fonts, images, remapperVars, refsVars>>

WriteFonts ==
    /\ pc = "write_fonts"
    /\ writer' = [writer EXCEPT !.objects = @ \o FontObjects(refs, fonts)]
    /\ pc' = "write_images"
    /\ UNCHANGED <<layouts, refs, fonts, images, remapperVars, refsVars>>

WriteImages ==
    /\ pc = "write_images"
    /\ writer' = [writer EXCEPT !.objects = @ \o ImageObjects(refs, images)]
    /\ pc' = "finish"
    /\ UNCHANGED <<layouts, refs, fonts, images, remapperVars, refsVars>>

Finish ==
    /\ pc = "finish"
    /\ writer' = [writer EXCEPT !.root = refs.catalog]
    /\ pc' = "done"
    /\ UNCHANGED <<layouts, refs, fonts, images, remapperVars, refsVars>>

(***************************************************************************)
(* A Remapper under an arbitrary sequence of insert calls; calls is the    *)
(* history of the keys passed to insert.                                   *)
(***************************************************************************)
InitRemapper ==
    /\ rm = RemapperNew
    /\ calls = <<>>

Insert ==
    /\ Len(calls) < MaxCalls
    /\ \E key \in Keys :
          /\ rm' = RemapperInsert(rm, key)
          /\ calls' = Append(calls, key)
    /\ UNCHANGED <<exportVars, refsVars>>

(***************************************************************************)
(* Refs::new applied to arbitrary non-negative counts.                     *)
(***************************************************************************)
InitRefs ==
    /\ args \in [layouts : 0 .. MaxCount, fonts : 0 .. MaxCount,
                 images : 0 .. MaxCount, alpha_masks : 0 .. MaxCount]
    /\ r = NoRefs
    /\ rpc = "new"

Allocate ==
    /\ rpc = "new"
    /\ r' = RefsNew(args.layouts, args.fonts, args.images, args.alpha_masks)
    /\ rpc' = "done"
    /\ UNCHANGED <<args, exportVars, remapperVars>>

(***************************************************************************)
(* Specifications.                                                         *)
(***************************************************************************)
IdleExport ==
    /\ layouts = <<>>
    /\ pc = "idle"
    /\ refs = NoRefs
    /\ fonts = RemapperNew
    /\ images = RemapperNew
    /\ writer = NoWriter

IdleRefs ==
    /\ args = [layouts |-> 0, fonts |-> 0, images |-> 0, alpha_masks |-> 0]
    /\ r = NoRefs
    /\ rpc = "idle"

Init == InitExport /\ InitRemapper /\ IdleRefs
Next == New \/ WriteStructure \/ WritePages \/ WriteFonts \/ WriteImages \/ Finish
Spec == Init /\ [][Next]_vars

RemapperInit == IdleExport /\ InitRemapper /\ IdleRefs
RemapperNext == Insert
RemapperSpec == RemapperInit /\ [][RemapperNext]_vars

RefsInit == IdleExport /\ InitRemapper /\ InitRefs
RefsNext == Allocate
RefsSpec == RefsInit /\ [][RefsNext]_vars

(***************************************************************************)
(* Vocabulary of the properties.                                           *)
(***************************************************************************)
Objects == Elems(writer.objects)

ObjectsWithId(id) == {i \in DOMAIN writer.objects : writer.objects[i].id = id}

PagesWritten == pc \in {"write_fonts", "write_images", "finish", "done"}

\* the content streams written for the page at position p (from 1)
StreamsOf(p) == {o \in Objects : o.type = "Stream" /\ o.layout = p - 1}

IsText(p, e) == layouts[p].elements[e].element.kind = "Text"

Instrs(content, op, e) ==
    {k \in DOMAIN content : content[k].op = op /\ content[k].elem = e}

\* a and b are text elements of page p with no text element between them
ConsecutiveText(p, a, b) ==
    /\ a < b
    /\ IsText(p, a) /\ IsText(p, b)
    /\ \A c \in a + 1 .. b - 1 : ~IsText(p, c)

SameFont(a, b) == a.face = b.face /\ a.font_size = b.font_size

(***************************************************************************)
(* C1: for all counts given to Refs::new, the id sets of catalog,          *)
(* page_tree, pages(), contents(), fonts() (5 ids a group), images() and   *)
(* alpha_mask(0 .. alpha_masks-1) are pairwise disjoint and their union is *)
(* the interval [1, end).                                                  *)
(***************************************************************************)
C1_Classes ==
    << {r.catalog},
       {r.page_tree},
       Elems(RefsPages(r)),
       Elems(RefsContents(r)),
       UNION { {g.type0_font, g.cid_font, g.font_descriptor, g.cmap, g.data} :
               g \in Elems(RefsFonts(r)) },
       Elems(RefsImages(r)),
       {RefsAlphaMask(r, i) : i \in 0 .. args.alpha_masks - 1} >>

C1_RangesPartition ==
    rpc = "done" =>
        /\ \A i, j \in DOMAIN C1_Classes :
              i # j => C1_Classes[i] \cap C1_Classes[j] = {}
        /\ UNION Elems(C1_Classes) = 1 .. r.end - 1

(***************************************************************************)
(* C2: in every content stream the instructions follow the order of the    *)
(* page's elements: an instruction of an earlier element never comes after *)
(* an instruction of a later element, for text and images in any mix.      *)
(***************************************************************************)
C2_ElementOrderPreserved ==
    PagesWritten =>
        \A o \in Objects : o.type = "Stream" =>
            \A i, j \in DOMAIN o.content :
                (i < j /\ o.content[i].elem # 0 /\ o.content[j].elem # 0)
                    => o.content[i].elem <= o.content[j].elem

(***************************************************************************)
(* C3 as stated: two consecutive text elements of a page get exactly one   *)
(* font selection across both when their (face, font_size) are identical,  *)
(* and two when they differ.                                               *)
(***************************************************************************)
C3_OneOrTwoSelections ==
    PagesWritten =>
        \A p \in DOMAIN layouts : \A o \in StreamsOf(p) :
            \A a, b \in DOMAIN layouts[p].elements :
                ConsecutiveText(p, a, b) =>
                    Cardinality(Instrs(o.content, "Tf", a)
                                \cup Instrs(o.content, "Tf", b))
                    = IF SameFont(layouts[p].elements[a].element,
                                  layouts[p].elements[b].element)
                      THEN 1 ELSE 2

(***************************************************************************)
(* C3 amended: of two consecutive text elements of a page, the second gets *)
(* no font selection when its (face, font_size) are identical to the       *)
(* first's and exactly one, placed before its own positioning, when they   *)
(* differ; no text element gets more than one.                             *)
(***************************************************************************)
C3_SecondSelectsIffDiffers ==
    PagesWritten =>
        \A p \in DOMAIN layouts : \A o \in StreamsOf(p) :
            \A a, b \in DOMAIN layouts[p].elements :
                ConsecutiveText(p, a, b) =>
                    /\ Cardinality(Instrs(o.content, "Tf", a)) <= 1
                    /\ Cardinality(Instrs(o.content, "Tf", b))
                       = IF SameFont(layouts[p].elements[a].element,
                                     layouts[p].elements[b].element)
                         THEN 0 ELSE 1
                    /\ \A k \in Instrs(o.content, "Tf", b) :
                          /\ \A m \in Instrs(o.content, "Tj", a) : m < k
                          /\ \A m \in Instrs(o.content, "Tm", b) : k < m

\* a page whose first two text elements agree and whose third differs
C3_Witness ==
    /\ PagesWritten
    /\ \E p \in DOMAIN layouts :
          /\ Len(layouts[p].elements) >= 3
          /\ IsText(p, 1) /\ IsText(p, 2) /\ IsText(p, 3)
          /\ SameFont(layouts[p].elements[1].element,
                      layouts[p].elements[2].element)
          /\ ~SameFont(layouts[p].elements[2].element,
                       layouts[p].elements[3].element)
          /\ StreamsOf(p) # {}

(***************************************************************************)
(* C4: after any sequence of insert calls, layout_indices() lists each     *)
(* distinct inserted key once in first-insertion order, map(key) is the    *)
(* position of key in that list (so below len()), and an insert never      *)
(* changes the index of a key already present; inserting a key seen before *)
(* leaves the Remapper as it was.                                          *)
(***************************************************************************)
RECURSIVE FirstOccurrences(_)
FirstOccurrences(s) ==
    IF Len(s) = 0 THEN <<>>
    ELSE LET front == SubSeq(s, 1, Len(s) - 1)
             last == s[Len(s)]
         IN  IF last \in Elems(front) THEN FirstOccurrences(front)
             ELSE Append(FirstOccurrences(front), last)

C4_State ==
    /\ RemapperLayoutIndices(rm) = FirstOccurrences(calls)
    /\ RemapperLen(rm) = Cardinality(Elems(calls))
    /\ DOMAIN rm.to_pdf = Elems(calls)
    /\ RemapperPdfIndices(rm) = Range(0, RemapperLen(rm))
    /\ \A i \in DOMAIN rm.to_layout :
          /\ RemapperMap(rm, rm.to_layout[i]) = i - 1
          /\ RemapperMap(rm, rm.to_layout[i]) \in 0 .. RemapperLen(rm) - 1

C4_Step ==
    /\ \A k \in DOMAIN rm.to_pdf :
          k \in DOMAIN rm'.to_pdf /\ RemapperMap(rm', k) = RemapperMap(rm, k)
    /\ (calls' # calls /\ calls'[Len(calls')] \in Elems(calls)) => rm' = rm

C4_Remapper == [](C4_State) /\ [][C4_Step]_vars

\* a key inserted again after a different key was inserted
C4_Witness ==
    /\ Len(calls) >= 3
    /\ calls[1] # calls[2]
    /\ calls[3] = calls[1]
    /\ RemapperLen(rm) = 2

(***************************************************************************)
(* C5: the k-th image with alpha in Remapper order carries s_mask          *)
(* alpha_mask(k); a gray mask object is written under that same id, which  *)
(* lies in [alpha_masks_start, end) and is the id of no colour image; an   *)
(* image without alpha has no s_mask and no mask object.                   *)
(***************************************************************************)
ColourImages == {o \in Objects : o.type = "Image" /\ o.color_space = "DeviceRGB"}
MaskImages == {o \in Objects : o.type = "Image" /\ o.color_space = "DeviceGray"}

\* the number of images with alpha before position j of the Remapper
AlphaBefore(j) ==
    Cardinality({i \in 1 .. j - 1 : HasAlpha(images.to_layout[i])})

C5_SoftMaskIds ==
    pc \in {"finish", "done"} =>
        \A j \in DOMAIN images.to_layout :
            LET res == images.to_layout[j]
                colour == {o \in ColourImages : o.res = res}
                masks == {o \in MaskImages : o.res = res}
                mask_id == refs.alpha_masks_start + AlphaBefore(j)
            IN  /\ Cardinality(colour) = 1
                /\ IF HasAlpha(res)
                   THEN /\ \A o \in colour : o.s_mask = {mask_id}
                        /\ Cardinality(masks) = 1
                        /\ \A o \in masks : o.id = mask_id
                        /\ mask_id >= refs.alpha_masks_start
                        /\ mask_id < refs.end
                        /\ \A o \in ColourImages : o.id # mask_id
                   ELSE /\ \A o \in colour : o.s_mask = {}
                        /\ masks = {}

\* an opaque image, then two images with alpha: the mask index trails the
\* image index
C5_Witness ==
    /\ pc = "done"
    /\ Len(images.to_layout) = 3
    /\ ~HasAlpha(images.to_layout[1])
    /\ HasAlpha(images.to_layout[2])
    /\ HasAlpha(images.to_layout[3])
    /\ Cardinality(MaskImages) = 2

(***************************************************************************)
(* C6: every text element at (x, y) with font size s on a page of height H *)
(* gets one positioning instruction, at (x, H - y - s), whether or not a   *)
(* font selection was emitted for it.                                      *)
(***************************************************************************)
C6_TextOrigin ==
    PagesWritten =>
        \A p \in DOMAIN layouts : \A o \in StreamsOf(p) :
            \A e \in DOMAIN layouts[p].elements :
                IsText(p, e) =>
                    LET pe == layouts[p].elements[e]
                    IN  /\ Cardinality(Instrs(o.content, "Tm", e)) = 1
                        /\ \A k \in Instrs(o.content, "Tm", e) :
                              /\ o.content[k].x = pe.pos.x
                              /\ o.content[k].y =
                                    layouts[p].size.height - pe.pos.y
                                        - pe.element.font_size

\* H = 200, y = 10, s = 12 placed at 178, for an element without a font
\* selection of its own
C6_Witness ==
    /\ PagesWritten
    /\ \E p \in DOMAIN layouts : \E o \in StreamsOf(p) :
          \E e \in DOMAIN layouts[p].elements :
              /\ IsText(p, e)
              /\ layouts[p].size.height = 200
              /\ layouts[p].elements[e].pos.y = 10
              /\ layouts[p].elements[e].element.font_size = 12
              /\ Instrs(o.content, "Tf", e) = {}
              /\ \E k \in Instrs(o.content, "Tm", e) : o.content[k].y = 178

(***************************************************************************)
(* C7: the number of alpha-mask ids allocated equals the number of mask    *)
(* objects written, and after write() every id of [1, end) has been        *)
(* written as exactly one object.                                          *)
(***************************************************************************)
C7_EveryIdWrittenOnce ==
    pc = "done" =>
        /\ refs.end - refs.alpha_masks_start = Cardinality(MaskImages)
        /\ \A id \in 1 .. refs.end - 1 : Cardinality(ObjectsWithId(id)) = 1
        /\ \A o \in Objects : o.id \in 1 .. refs.end - 1

(***************************************************************************)
(* C8: the name F<i> a content stream selects for a text element of face f *)
(* is bound, in the resource dictionary of the page tree, to the           *)
(* type0_font id of font group i = fonts.map(f), and the five objects of   *)
(* that group are written from face f; the name Im<j> a content stream     *)
(* draws for an image element of resource res is bound to images_start + j *)
(* with j = images.map(res), and the colour image written under that id is *)
(* the one of res.                                                         *)
(***************************************************************************)
Lookup(dict, name) == {dict[i][2] : i \in {k \in DOMAIN dict : dict[k][1] = name}}

PageTrees == {o \in Objects : o.type = "Pages"}

FontGroupTypes ==
    <<"Type0Font", "CidFont", "FontDescriptor", "Cmap", "FontFile">>

C8_NamesResolve ==
    pc = "done" =>
        \A p \in DOMAIN layouts : \A o \in StreamsOf(p) : \A t \in PageTrees :
            \A k \in DOMAIN o.content :
                LET ins == o.content[k]
                IN  /\ ins.op = "Tf" =>
                        LET f == layouts[p].elements[ins.elem].element.face
                            i == fonts.to_pdf[f]
                            id == refs.fonts_start + OBJECTS_PER_FONT * i
                        IN  /\ ins.name = <<"F", i>>
                            /\ fonts.to_layout[i + 1] = f
                            /\ Lookup(t.fonts, ins.name) = {id}
                            /\ \A d \in 0 .. OBJECTS_PER_FONT - 1 :
                                  /\ Cardinality(ObjectsWithId(id + d)) = 1
                                  /\ \A n \in ObjectsWithId(id + d) :
                                        /\ writer.objects[n].type
                                              = FontGroupTypes[d + 1]
                                        /\ writer.objects[n].face = f
                    /\ ins.op = "Do" =>
                        LET res == layouts[p].elements[ins.elem].element.res
                            j == images.to_pdf[res]
                            id == refs.images_start + j
                        IN  /\ ins.name = <<"Im", j>>
                            /\ images.to_layout[j + 1] = res
                            /\ Lookup(t.x_objects, ins.name) = {id}
                            /\ Cardinality(ObjectsWithId(id)) = 1
                            /\ \A n \in ObjectsWithId(id) :
                                  /\ writer.objects[n].type = "Image"
                                  /\ writer.objects[n].color_space = "DeviceRGB"
                                  /\ writer.objects[n].res = res

\* two fonts and two images in use, the second of each selected or drawn
C8_Witness ==
    /\ pc = "done"
    /\ RemapperLen(fonts) + RemapperLen(images) >= 3
    /\ \E o \in Objects :
          /\ o.type = "Stream"
          /\ \E k \in DOMAIN o.content :
                o.content[k].op = "Tf" /\ o.content[k].name = <<"F", 1>>
    /\ \E o \in Objects :
          /\ o.type = "Stream"
          /\ \E k \in DOMAIN o.content :
                o.content[k].op = "Do" /\ o.content[k].name \in
                    {<<"Im", 0>>, <<"Im", 1>>}

(***************************************************************************)
(* C9: the page object of page p has id pages_start + p and names the      *)
(* content stream contents_start + p, under which write_pages writes the   *)
(* content of layout p; there are exactly page_count page objects and      *)
(* page_count content streams, whatever the font and image counts.         *)
(***************************************************************************)
PageObjs == {o \in Objects : o.type = "Page"}
StreamObjs == {o \in Objects : o.type = "Stream"}

C9_PagesAndContents ==
    pc = "done" =>
        /\ Cardinality({n \in DOMAIN writer.objects :
                           writer.objects[n].type = "Page"}) = Len(layouts)
        /\ Cardinality({n \in DOMAIN writer.objects :
                           writer.objects[n].type = "Stream"}) = Len(layouts)
        /\ \A p \in 0 .. Len(layouts) - 1 :
              LET page == layouts[p + 1]
                  pobjs == {o \in PageObjs : o.id = refs.pages_start + p}
                  sobjs == {o \in StreamObjs : o.id = refs.contents_start + p}
              IN  /\ Cardinality(ObjectsWithId(refs.pages_start + p)) = 1
                  /\ Cardinality(ObjectsWithId(refs.contents_start + p)) = 1
                  /\ Cardinality(pobjs) = 1
                  /\ Cardinality(sobjs) = 1
                  /\ \A o \in pobjs :
                        /\ o.contents = refs.contents_start + p
                        /\ o.parent = refs.page_tree
                        /\ o.media_box
                              = <<0, 0, page.size.width, page.size.height>>
                  /\ \A o \in sobjs :
                        /\ o.layout = p
                        /\ \A e \in DOMAIN page.elements :
                              Cardinality(Instrs(o.content,
                                  IF IsText(p + 1, e) THEN "Tj" ELSE "Do", e)) = 1
                        /\ \A k \in DOMAIN o.content :
                              o.content[k].elem \in 0 .. Len(page.elements)

\* two pages with elements of their own, a font and an image in use
C9_Witness ==
    /\ pc = "done"
    /\ Len(layouts) = 2
    /\ Len(layouts[1].elements) # Len(layouts[2].elements)
    /\ RemapperLen(fonts) >= 1
    /\ RemapperLen(images) >= 1
    /\ Cardinality(StreamObjs) = 2

(***************************************************************************)
(* C10: on every page, when the glyphs of a text element are shown, the    *)
(* last font selection emitted before them in that page's content stream   *)
(* is the one of the element's face and size; so the first text element of *)
(* every page gets a font selection, whatever earlier pages selected.      *)
(***************************************************************************)
C10_FontSelectedBeforeShow ==
    PagesWritten =>
        \A p \in DOMAIN layouts : \A o \in StreamsOf(p) :
            \A k \in DOMAIN o.content :
                o.content[k].op = "Tj" =>
                    LET shaped == layouts[p].elements[o.content[k].elem].element
                        sel == {m \in 1 .. k - 1 : o.content[m].op = "Tf"}
                    IN  /\ sel # {}
                        /\ \A m \in sel :
                              (\A n \in sel : n <= m) =>
                                  /\ o.content[m].name
                                        = <<"F", fonts.to_pdf[shaped.face]>>
                                  /\ o.content[m].size = shaped.font_size
                        /\ (\A e \in 1 .. o.content[k].elem - 1 : ~IsText(p, e))
                              => Instrs(o.content, "Tf", o.content[k].elem) # {}

\* the second page starts with the font the first page ended with
C10_Witness ==
    /\ PagesWritten
    /\ Len(layouts) = 2
    /\ Len(layouts[1].elements) >= 1
    /\ Len(layouts[2].elements) >= 1
    /\ IsText(1, Len(layouts[1].elements))
    /\ IsText(2, 1)
    /\ SameFont(layouts[1].elements[Len(layouts[1].elements)].element,
                layouts[2].elements[1].element)
    /\ \E o \in StreamsOf(2) : Instrs(o.content, "Tf", 1) # {}

====
